---- MODULE Spec2Model ----
(***************************************************************************)
(* A model of cen-stats: src/cen_stats/cli.py (check_cens_status and       *)
(* join_summarize_results) and src/cen_stats/partial_cen.py                *)
(* (is_partial_centromere).                                                *)
(*                                                                         *)
(* Four specifications share the module:                                   *)
(*   Spec        the contig loop of check_cens_status as a whole run;      *)
(*   SpecLoop    the body of that loop from line 125 on (the flattening,   *)
(*               the HOR-run count and the loop over the references);      *)
(*   SpecJoin    join_summarize_results applied to bounded result tables;  *)
(*   SpecPartial is_partial_centromere applied to bounded contigs.         *)
(*                                                                         *)
(* Strings are sequences of tokens, tables are sequences of records, a     *)
(* polars null is the value NULL, and a float is an exact fraction or NaN. *)
(***************************************************************************)
EXTENDS Integers, Sequences, FiniteSets, TLC

VARIABLES
    \* check_cens_status, cli.py:91-199
    batch, idx, pc, pcontigs, pstatus, output,
    jcontigs, jrefs, jindex, contigs, refs, dsts, orts,
    \* the loop body of check_cens_status, cli.py:125-175
    ctg_name, chr_name, df_in, df_ctg_grp, df_ref_grps, ri, max_alr_len_thr,
    df_flatten_ctg_grp, ctg_num_hor_arrays, df_q_arm_ctg_grp,
    \* join_summarize_results, cli.py:28-77
    df_partial_contig_res, df_jaccard_index_res, df_edit_distance_res,
    df_edit_distance_same_chr_res, res, joined,
    \* is_partial_centromere, partial_cen.py:6-51
    df, edge_len, partial_res,
    \* the keyword arguments of check_cens_status, cli.py:85-89
    edge_perc_alr_thr, dst_perc_thr

progVars == <<batch, idx, pc, pcontigs, pstatus, output>>
listVars == <<jcontigs, jrefs, jindex, contigs, refs, dsts, orts>>
loopVars == <<ctg_name, chr_name, df_in, df_ctg_grp, df_ref_grps, ri, max_alr_len_thr,
              df_flatten_ctg_grp, ctg_num_hor_arrays, df_q_arm_ctg_grp>>
joinVars == <<df_partial_contig_res, df_jaccard_index_res, df_edit_distance_res,
              df_edit_distance_same_chr_res, res, joined>>
partVars == <<df, edge_len, partial_res>>
argVars == <<edge_perc_alr_thr, dst_perc_thr>>
vars == <<progVars, listVars, loopVars, joinVars, partVars, argVars>>

NULL == "null"
ALR == "ALR/Alpha"

----------------------------------------------------------------------------
(* Generic helpers.                                                        *)

RECURSIVE SumSeq(_)
SumSeq(s) == IF s = <<>> THEN 0 ELSE Head(s) + SumSeq(Tail(s))

RECURSIVE ReverseSeq(_)
ReverseSeq(s) == IF s = <<>> THEN <<>> ELSE Append(ReverseSeq(Tail(s)), Head(s))

SeqsUpTo(S, n) == UNION {[1..k -> S] : k \in 0..n}

Types(d) == [i \in 1..Len(d) |-> d[i].type]
Dsts(d) == [i \in 1..Len(d) |-> d[i].dst]

----------------------------------------------------------------------------
(* is_partial_centromere (partial_cen.py).                                 *)

MaxRows == 2
MaxCoord == 3
MaxDst == 2
MaxEdgeLen == 2

\* edge_perc_alr_thr in percent; EDGE_PERC_ALR_THR is 70 % (partial_cen.py:23).
ThrPcts == {-50, 0, 70, 100}

RepeatTypes == {ALR, "L1"}

\* A contig's repeats: rows in coordinate order, dst a non-negative extent.
PartialRows == [type : RepeatTypes, end : 1..MaxCoord, dst : 0..MaxDst]
PartialDfs ==
    {d \in SeqsUpTo(PartialRows, MaxRows) :
        /\ Len(d) >= 1
        /\ \A i \in 1..(Len(d) - 1) : d[i].end <= d[i + 1].end}

\* A float: an exact fraction num/den, or NaN.
Frac(n, d) == [nan |-> FALSE, num |-> n, den |-> d]
NaN == [nan |-> TRUE, num |-> 0, den |-> 1]

\* df.filter(pl.col("end") < df[0]["end"] + edge_len)
ledge(d, el) == SelectSeq(d, LAMBDA r : r.end < d[1].end + el)
\* df.filter(pl.col("end") > df[-1]["end"] - edge_len)
redge(d, el) == SelectSeq(d, LAMBDA r : r.end > d[Len(d)].end - el)

AlrRows(w) == SelectSeq(w, LAMBDA r : r.type = ALR)

\* group_by("type").agg(dst.sum() / window dst.sum()).filter(type == ALR).row(0)[1]
\* row(0) raises when the window holds no ALR/Alpha row and the except clause
\* gives 0.0; the division is polars' float division, which raises nothing:
\* 0 / 0 is NaN.
edge_perc_alr(w) ==
    IF AlrRows(w) = <<>> THEN Frac(0, 1)
    ELSE IF SumSeq(Dsts(w)) = 0 THEN NaN
    ELSE Frac(SumSeq(Dsts(AlrRows(w))), SumSeq(Dsts(w)))

\* A flipped comparison.
LessThanThr(p, thrPct) == ~p.nan /\ p.num * 100 < thrPct * p.den

\* perc > edge_perc_alr_thr on Python floats: any comparison with NaN is False.
GreaterThanThr(p, thrPct) == ~p.nan /\ p.num * 100 > thrPct * p.den

is_partial_centromere(d, el, thrPct) ==
    \/ GreaterThanThr(edge_perc_alr(ledge(d, el)), thrPct)
    \/ GreaterThanThr(edge_perc_alr(redge(d, el)), thrPct)

InitPartialVars ==
    /\ df \in PartialDfs
    /\ edge_len \in 0..MaxEdgeLen
    /\ partial_res = <<>>

IdlePartialVars ==
    /\ df = <<>>
    /\ edge_len = 0
    /\ partial_res = <<>>

\* One call of is_partial_centromere on the fixed contig and edge_len; the
\* result is kept per threshold.
CallIsPartial ==
    \E t \in ThrPcts :
        /\ t \notin DOMAIN partial_res
        /\ partial_res' = (t :> is_partial_centromere(df, edge_len, t)) @@ partial_res
        /\ UNCHANGED <<df, edge_len>>
        /\ UNCHANGED <<progVars, listVars, loopVars, joinVars, argVars>>

----------------------------------------------------------------------------
(* Strings with a chromosome token (RGX_CHR) and the reference prefix.     *)

\* RGX_CHR matches a chromosome name; a string is a sequence of tokens.
ChrTokens == {"chr1", "chr2", "chr13", "chr14"}
ACROCENTRIC_CHROMOSOMES == {"chr13", "chr14", "chr15", "chr21", "chr22"}

\* --reference_prefix, default "chm13" (cli.py:252)
reference_prefix == <<"chm13">>

Orientation_Forward == "fwd"
Orientation_Reverse == "rev"
Orientations == {Orientation_Forward, Orientation_Reverse}

ChrPositions(s) == {i \in 1..Len(s) : s[i] \in ChrTokens}
FirstChrPos(s) == CHOOSE i \in ChrPositions(s) : \A j \in ChrPositions(s) : i <= j

\* re.search(RGX_CHR, s) / pl.col(..).str.extract(RGX_CHR.pattern): the first
\* match, or no match (None, null).
str_extract(s) ==
    IF s = NULL \/ ChrPositions(s) = {} THEN NULL ELSE s[FirstChrPos(s)]

\* pl.col(..).str.replace(RGX_CHR.pattern, value): the first match replaced;
\* a null value gives null, no match leaves the string as it is.
str_replace(s, value) ==
    IF value = NULL THEN NULL
    ELSE IF ChrPositions(s) = {} THEN s
    ELSE [s EXCEPT ![FirstChrPos(s)] = value]

\* pl.col("contig").str.starts_with(reference_prefix)
starts_with(s, prefix) ==
    Len(prefix) <= Len(s) /\ SubSeq(s, 1, Len(prefix)) = prefix

\* pl.col("reorient").str.replace(Orientation.Reverse, Orientation.Forward)
replace_reverse(o) ==
    IF o = NULL THEN NULL
    ELSE IF o = Orientation_Reverse THEN Orientation_Forward ELSE o

----------------------------------------------------------------------------
(* join_summarize_results (cli.py:28-77).                                  *)

RowsOf(t, c) == SelectSeq(t, LAMBDA r : r.contig = c)

\* The rows a join makes of each left row, one after the other.
RECURSIVE Concat(_)
Concat(ss) == IF ss = <<>> THEN <<>> ELSE Head(ss) \o Concat(Tail(ss))

\* group_by("contig").first(): the first row of every contig. The rows are
\* kept in the order in which the contigs first appear; without
\* maintain_order polars fixes no order, and the left join that reads the
\* result at cli.py:39-45 looks rows up by contig, so none is needed.
first_per_contig(t) ==
    SelectSeq([i \in 1..Len(t) |-> [row |-> t[i], i |-> i]],
              LAMBDA x : \A j \in 1..(x.i - 1) : t[j].contig # x.row.contig)

GroupByFirst(t) ==
    LET f == first_per_contig(t) IN [i \in 1..Len(f) |-> f[i].row]

\* No deduplication at all.
GroupByNone(t) == t

\* df_jaccard_index_res.join(df_edit_distance_res, on="contig"): an inner join;
\* the second table's ref becomes ref_right.
JoinJaccardEdit(tj, te) ==
    Concat([n \in 1..Len(tj) |->
               LET j == tj[n]
                   m == RowsOf(te, j.contig)
               IN  [i \in 1..Len(m) |->
                       [contig |-> j.contig, ref |-> j.ref,
                        ref_right |-> m[i].ref, ort |-> m[i].ort]]])

\* df_partial_contig_res.join(<right>, on="contig", how="left")
LeftJoinBest(tp, tb) ==
    Concat([n \in 1..Len(tp) |->
               LET p == tp[n]
                   m == RowsOf(tb, p.contig)
               IN  IF m = <<>>
                   THEN << [contig |-> p.contig, partial |-> p.partial,
                            ref |-> NULL, ref_right |-> NULL, ort |-> NULL] >>
                   ELSE [i \in 1..Len(m) |->
                            [contig |-> p.contig, partial |-> p.partial,
                             ref |-> m[i].ref, ref_right |-> m[i].ref_right,
                             ort |-> m[i].ort]]])

\* .join(df_edit_distance_same_chr_res, on="contig", how="left")
LeftJoinSameChr(t, ts) ==
    Concat([n \in 1..Len(t) |->
               LET r == t[n]
                   m == RowsOf(ts, r.contig)
               IN  IF m = <<>>
                   THEN << [contig |-> r.contig, partial |-> r.partial,
                            ref |-> r.ref, ref_right |-> r.ref_right, ort |-> r.ort,
                            ort_same_chr |-> NULL] >>
                   ELSE [i \in 1..Len(m) |->
                            [contig |-> r.contig, partial |-> r.partial,
                             ref |-> r.ref, ref_right |-> r.ref_right, ort |-> r.ort,
                             ort_same_chr |-> m[i].ort_same_chr]]])

\* The Jaccard-preferred reference accepted without the edit-distance one.
RefsConcurJaccardOnly(r) == r.ref # NULL

\* pl.col("ref") == pl.col("ref_right"): null when either side is null, and
\* pl.when(null) takes the otherwise branch.
RefsConcur(r) == r.ref # NULL /\ r.ref_right # NULL /\ r.ref = r.ref_right

fill_null(v, w) == IF v = NULL THEN w ELSE v

\* .select(...), cli.py:48-61
select_final(r) ==
    [contig |-> r.contig,
     final_contig |-> IF RefsConcur(r) THEN str_extract(r.ref)
                      ELSE str_extract(r.contig),
     reorient |-> fill_null(IF RefsConcur(r) THEN r.ort ELSE NULL, r.ort_same_chr),
     partial |-> r.partial]

\* Never reorient if reference, cli.py:68-72
reorient_if_reference(contig, reorient) ==
    IF starts_with(contig, reference_prefix)
    THEN replace_reverse(reorient)
    ELSE reorient

\* .with_columns(...), cli.py:63-73
with_final_columns(r) ==
    [contig |-> r.contig,
     final_contig |-> str_replace(r.contig, r.final_contig),
     reorient |-> reorient_if_reference(r.contig, r.reorient),
     partial |-> r.partial]

\* .group_by("contig", maintain_order=True).first(), cli.py:75-76
take_first_row_per_contig(t) == GroupByFirst(t)

join_summarize_results(tp, tj, te, ts) ==
    LET best == GroupByFirst(JoinJaccardEdit(tj, te))
        wide == LeftJoinSameChr(LeftJoinBest(tp, best), ts)
        sel == [i \in 1..Len(wide) |-> with_final_columns(select_final(wide[i]))]
    IN  take_first_row_per_contig(sel)

\* Inputs of join_summarize_results.
MaxTableRows == 4

JoinContigs == { <<"chm13", "chr1">>, <<"s1", "chr2", "h1">> }
JoinRefs == { <<"chr1">>, <<"chr2">> }

PartialTableRows == [contig : JoinContigs, partial : BOOLEAN]
JaccardRows == [contig : JoinContigs, ref : JoinRefs]
EditRows == [contig : JoinContigs, ref : JoinRefs, ort : Orientations]
SameChrRows == [contig : JoinContigs, ort_same_chr : Orientations]

\* The partial-flag table holds every contig once: check_cens_status appends
\* one entry per group of df_ctg.group_by(["contig"]) (cli.py:106-124).
PartialTables ==
    {t \in SeqsUpTo(PartialTableRows, Cardinality(JoinContigs)) :
        \A i, j \in 1..Len(t) : t[i].contig = t[j].contig => i = j}

InitJoinVars ==
    /\ df_partial_contig_res \in PartialTables
    /\ \E a \in 0..MaxTableRows : \E b \in 0..(MaxTableRows - a) :
         \E c \in 0..(MaxTableRows - a - b) :
            /\ df_jaccard_index_res \in [1..a -> JaccardRows]
            /\ df_edit_distance_res \in [1..b -> EditRows]
            /\ df_edit_distance_same_chr_res \in [1..c -> SameChrRows]
    /\ res = <<>>
    /\ joined = FALSE

IdleJoinVars ==
    /\ df_partial_contig_res = <<>>
    /\ df_jaccard_index_res = <<>>
    /\ df_edit_distance_res = <<>>
    /\ df_edit_distance_same_chr_res = <<>>
    /\ res = <<>>
    /\ joined = FALSE

CallJoinSummarize ==
    /\ ~joined
    /\ res' = join_summarize_results(df_partial_contig_res, df_jaccard_index_res,
                                     df_edit_distance_res,
                                     df_edit_distance_same_chr_res)
    /\ joined' = TRUE
    /\ UNCHANGED <<df_partial_contig_res, df_jaccard_index_res,
                   df_edit_distance_res, df_edit_distance_same_chr_res>>
    /\ UNCHANGED <<progVars, listVars, loopVars, partVars, argVars>>

IdleProgVars ==
    /\ batch = <<>> /\ idx = 0 /\ pc = "idle"
    /\ pcontigs = <<>> /\ pstatus = <<>> /\ output = NULL

IdleListVars ==
    /\ jcontigs = <<>> /\ jrefs = <<>> /\ jindex = <<>>
    /\ contigs = <<>> /\ refs = <<>> /\ dsts = <<>> /\ orts = <<>>

IdleArgVars == edge_perc_alr_thr = 0 /\ dst_perc_thr = 0

IdleLoopVars ==
    /\ ctg_name = NULL /\ chr_name = NULL /\ df_in = <<>> /\ df_ctg_grp = <<>>
    /\ df_ref_grps = <<>> /\ ri = 0 /\ max_alr_len_thr = 0
    /\ df_flatten_ctg_grp = NULL /\ ctg_num_hor_arrays = 0
    /\ df_q_arm_ctg_grp = NULL

----------------------------------------------------------------------------
(* The body of the contig loop of check_cens_status from line 125 on.      *)

\* HOR_LEN_THR of constants.py, in units in which a row has extent 1 or 3.
HOR_LEN_THR == 2

MaxCtgRows == 3

Min2(a, b) == IF a <= b THEN a ELSE b
Abs(x) == IF x < 0 THEN -x ELSE x

\* flatten_repeats: every maximal run of consecutive rows of one type becomes
\* one row whose dst is the sum of the run's.
RECURSIVE flatten_repeats(_)
flatten_repeats(d) ==
    IF Len(d) <= 1 THEN d
    ELSE LET rest == flatten_repeats(Tail(d))
         IN  IF Head(d).type = Head(rest).type
             THEN <<[type |-> Head(d).type, dst |-> Head(d).dst + Head(rest).dst]>>
                  \o Tail(rest)
             ELSE <<Head(d)>> \o rest

\* get_q_arm_acro_chr: the arm that bears the main HOR array, the rows of a
\* flattened sequence from its largest ALR/Alpha run on; the whole sequence
\* when it has no ALR/Alpha run.
AlrPositions(f) == {i \in 1..Len(f) : f[i].type = ALR}
MainHorPos(f) ==
    CHOOSE i \in AlrPositions(f) :
        \A j \in AlrPositions(f) :
            f[j].dst < f[i].dst \/ (f[j].dst = f[i].dst /\ i <= j)
get_q_arm_acro_chr(f) ==
    IF AlrPositions(f) = {} THEN f ELSE SubSeq(f, MainHorPos(f), Len(f))

\* len(df.filter((type == "ALR/Alpha") & (dst > thr)))
num_hor_arrays(f, thr) ==
    Cardinality({i \in 1..Len(f) : f[i].type = ALR /\ f[i].dst > thr})

\* cli.py:126-130: the threshold is the constant HOR_LEN_THR.
ctg_hor_count(f) == num_hor_arrays(f, HOR_LEN_THR)

\* A ReferenceProfile of split_ref_rm_input_by_contig: the rows as read, the
\* flattened rows (of an acrocentric reference only the q-arm, cli.py:145)
\* and the number of HOR arrays.
ReferenceProfile(name, d) ==
    [df |-> d,
     flat_df |-> IF name \in ACROCENTRIC_CHROMOSOMES
                 THEN get_q_arm_acro_chr(flatten_repeats(d))
                 ELSE flatten_repeats(d),
     num_hor_arrays |-> num_hor_arrays(flatten_repeats(d), HOR_LEN_THR)]

\* editdistance.eval: the Levenshtein distance, row by row.
RECURSIVE LevRow(_, _, _, _)
LevRow(prev, x, b, acc) ==
    LET j == Len(acc)
    IN  IF j > Len(b) THEN acc
        ELSE LevRow(prev, x, b,
                    Append(acc, Min2(Min2(prev[j + 1] + 1, acc[j] + 1),
                                     prev[j] + (IF x = b[j] THEN 0 ELSE 1))))
RECURSIVE LevFrom(_, _, _)
LevFrom(a, b, prev) ==
    IF a = <<>> THEN prev[Len(b) + 1]
    ELSE LevFrom(Tail(a), b, LevRow(prev, Head(a), b, <<prev[1] + 1>>))
editdistance_eval(a, b) == LevFrom(a, b, [j \in 1..(Len(b) + 1) |-> j - 1])

\* jaccard_index: |A n B| / |A u B|, 0 when both sets are empty.
SetOf(q) == {q[i] : i \in 1..Len(q)}
jaccard_index(A, B) ==
    IF A \cup B = {} THEN <<0, 1>>
    ELSE <<Cardinality(A \cap B), Cardinality(A \cup B)>>

\* cli.py:140-144
align_to_q_arm(chr, ref_name, n_ctg, n_ref) ==
    /\ chr \in ACROCENTRIC_CHROMOSOMES
    /\ ref_name \in ACROCENTRIC_CHROMOSOMES
    /\ Abs(n_ctg - n_ref) < 3

\* The reference's rows as read, whatever the test says.
select_ref_df_always(ref_ctg, q_arm) == ref_ctg.df

\* cli.py:146 and cli.py:149
select_ref_grp(ref_ctg, q_arm) == IF q_arm THEN ref_ctg.flat_df ELSE ref_ctg.df

\* cli.py:147 and cli.py:150: the else branch rebinds df_ctg_grp to itself,
\* so it keeps whatever an earlier reference left in it.
select_ctg_grp(cur, q_arm_grp, q_arm) == IF q_arm THEN q_arm_grp ELSE cur

\* The inputs: one contig group and the reference table.
LoopRows == {[type |-> ALR, dst |-> 1], [type |-> ALR, dst |-> HOR_LEN_THR + 1],
             [type |-> "L1", dst |-> 1]}
LoopContigs == { <<"s1", "chr13">>, <<"s1", "chr1", "h1">> }
LoopRefNames == {"chr1", "chr13", "chr14"}
RefDfCatalog ==
    LET a1 == [type |-> ALR, dst |-> 1]
        a3 == [type |-> ALR, dst |-> HOR_LEN_THR + 1]
        l1 == [type |-> "L1", dst |-> 1]
    IN  { <<l1, l1>>, <<l1, a3>>, <<a3, l1, a3, l1, a3, a1>> }
RefTables ==
    {t \in SeqsUpTo([name : LoopRefNames, d : RefDfCatalog], Cardinality(LoopRefNames)) :
        \A i, j \in 1..Len(t) : t[i].name = t[j].name => i = j}

\* df_ref_grps = dict(split_ref_rm_input_by_contig(df_ref)), cli.py:103
RefTablesLoaded ==
    {[i \in 1..Len(t) |->
         [name |-> t[i].name, ref_ctg |-> ReferenceProfile(t[i].name, t[i].d)]] :
        t \in RefTables}

\* The state at cli.py:125 for one contig with a chromosome token.
InitLoopVars ==
    /\ ctg_name \in LoopContigs
    /\ chr_name = str_extract(ctg_name)
    /\ df_in \in {d \in SeqsUpTo(LoopRows, MaxCtgRows) : Len(d) >= 1}
    /\ df_ctg_grp = df_in
    /\ df_ref_grps \in RefTablesLoaded
    /\ ri = 0
    /\ max_alr_len_thr \in {HOR_LEN_THR, 0}
    /\ df_flatten_ctg_grp = NULL
    /\ ctg_num_hor_arrays = 0
    /\ df_q_arm_ctg_grp = NULL

\* cli.py:125-135
FlattenContig ==
    /\ pc = "flatten"
    /\ df_flatten_ctg_grp' = flatten_repeats(df_ctg_grp)
    /\ ctg_num_hor_arrays' = ctg_hor_count(flatten_repeats(df_ctg_grp))
    /\ df_q_arm_ctg_grp' = IF chr_name \in ACROCENTRIC_CHROMOSOMES
                            THEN get_q_arm_acro_chr(flatten_repeats(df_ctg_grp))
                            ELSE df_q_arm_ctg_grp
    /\ pc' = "refs"
    /\ UNCHANGED <<ctg_name, chr_name, df_in, df_ctg_grp, df_ref_grps, ri,
                   max_alr_len_thr>>
    /\ UNCHANGED <<batch, idx, pcontigs, pstatus, output>>
    /\ UNCHANGED <<listVars, joinVars, partVars, argVars>>

\* cli.py:137-175: one iteration of the loop over df_ref_grps.items()
CompareWithRef ==
    /\ pc = "refs"
    /\ ri < Len(df_ref_grps)
    /\ LET ref_name == df_ref_grps[ri + 1].name
           ref_ctg == df_ref_grps[ri + 1].ref_ctg
           q_arm == align_to_q_arm(chr_name, ref_name, ctg_num_hor_arrays,
                                   ref_ctg.num_hor_arrays)
           df_ref_grp == select_ref_grp(ref_ctg, q_arm)
           new_ctg_grp == select_ctg_grp(df_ctg_grp, df_q_arm_ctg_grp, q_arm)
           dst_fwd == editdistance_eval(Types(df_ref_grp), Types(new_ctg_grp))
           dst_rev == editdistance_eval(Types(df_ref_grp),
                                        ReverseSeq(Types(new_ctg_grp)))
       IN  /\ df_ctg_grp' = new_ctg_grp
           /\ jcontigs' = Append(jcontigs, ctg_name)
           /\ jrefs' = Append(jrefs, ref_name)
           /\ jindex' = Append(jindex, jaccard_index(SetOf(Types(df_ref_grp)),
                                                     SetOf(Types(new_ctg_grp))))
           /\ contigs' = contigs \o <<ctg_name, ctg_name>>
           /\ refs' = refs \o <<ref_name, ref_name>>
           /\ orts' = orts \o <<Orientation_Forward, Orientation_Reverse>>
           /\ dsts' = dsts \o <<dst_fwd, dst_rev>>
    /\ ri' = ri + 1
    /\ UNCHANGED <<ctg_name, chr_name, df_in, df_ref_grps, max_alr_len_thr,
                   df_flatten_ctg_grp, ctg_num_hor_arrays, df_q_arm_ctg_grp>>
    /\ UNCHANGED <<batch, idx, pc, pcontigs, pstatus, output>>
    /\ UNCHANGED <<joinVars, partVars, argVars>>

\* The loop over the references is exhausted; control returns to line 106.
EndOfRefs ==
    /\ pc = "refs"
    /\ ri = Len(df_ref_grps)
    /\ pc' = "next_contig"
    /\ UNCHANGED <<batch, idx, pcontigs, pstatus, output>>
    /\ UNCHANGED <<listVars, loopVars, joinVars, partVars, argVars>>

----------------------------------------------------------------------------
(* check_cens_status as a whole run (cli.py:80-199).                       *)

MaxBatch == 3

\* The parameters of is_partial_centromere (partial_cen.py:6-11) and the
\* keywords check_cens_status passes besides the positional df
\* (cli.py:118-123).
is_partial_centromere_params == {"df", "edge_len", "edge_perc_alr_thr"}
call_keywords == {"edge_len", "edge_perc_alr_thr", "max_alr_len_thr"}

\* A Python call binds when every keyword names a parameter; otherwise it
\* raises TypeError before the function body runs.
CallBinds(keywords, params) == keywords \subseteq params

FirstIdxPerContig(c) ==
    SelectSeq([i \in 1..Len(c) |-> i], LAMBDA i : \A j \in 1..(i - 1) : c[j] # c[i])

\* get_contig_similarity_by_jaccard_index: per contig the reference with the
\* largest Jaccard index, the first one on a tie.
get_contig_similarity_by_jaccard_index(jc, jr, ji) ==
    LET Less(i, j) == ji[i][1] * ji[j][2] < ji[j][1] * ji[i][2]
        Best(c) == CHOOSE i \in 1..Len(jc) :
                       /\ jc[i] = c
                       /\ \A j \in 1..Len(jc) :
                              jc[j] = c => (Less(j, i) \/ (~Less(i, j) /\ i <= j))
        f == FirstIdxPerContig(jc)
    IN  [k \in 1..Len(f) |-> [contig |-> jc[f[k]], ref |-> <<jr[Best(jc[f[k]])]>>]]

\* Of the rows S of one contig, those whose distance has a percentile rank of
\* at most thrPct among S, and of these the first with the smallest distance.
BestByEditDst(S, ds, thrPct) ==
    LET kept == {i \in S : Cardinality({j \in S : ds[j] <= ds[i]}) * 100
                               <= thrPct * Cardinality(S)}
    IN  {i \in kept : \A j \in kept : ds[i] < ds[j] \/ (ds[i] = ds[j] /\ i <= j)}

\* get_contig_similarity_by_edit_dst: per contig the best (reference,
\* orientation) among all references, and the best orientation among the
\* references that carry the contig's own chromosome token.
get_contig_similarity_by_edit_dst(c, rs, ds, os, thrPct) ==
    LET f == FirstIdxPerContig(c)
        All(k) == {i \in 1..Len(c) : c[i] = c[f[k]]}
        Same(k) == {i \in All(k) : rs[i] = str_extract(c[f[k]])}
        any == SelectSeq([k \in 1..Len(f) |-> k],
                         LAMBDA k : BestByEditDst(All(k), ds, thrPct) # {})
        same == SelectSeq([k \in 1..Len(f) |-> k],
                          LAMBDA k : BestByEditDst(Same(k), ds, thrPct) # {})
        Pick(S) == CHOOSE i \in BestByEditDst(S, ds, thrPct) : TRUE
    IN  [edit |-> [n \in 1..Len(any) |->
                      [contig |-> c[f[any[n]]],
                       ref |-> <<rs[Pick(All(any[n]))]>>,
                       ort |-> os[Pick(All(any[n]))]]],
         same_chr |-> [n \in 1..Len(same) |->
                          [contig |-> c[f[same[n]]],
                           ort_same_chr |-> os[Pick(Same(same[n]))]]]]

\* The groups of df_ctg.group_by(["contig"]) in the order of iteration: every
\* contig once, with its rows.
BatchContigs ==
    { <<"s1", "chr13">>, <<"chm13", "chr1">>, <<"s1", "unplaced">>, <<"scaffold7">> }
BatchDfs ==
    { <<[type |-> ALR, end |-> 1, dst |-> 1]>>,
      <<[type |-> "L1", end |-> 1, dst |-> 1], [type |-> ALR, end |-> 2, dst |-> 3]>> }
Batches ==
    {b \in SeqsUpTo([contig : BatchContigs, df : BatchDfs], MaxBatch) :
        \A i, j \in 1..Len(b) : b[i].contig = b[j].contig => i = j}

InitRun ==
    /\ batch \in Batches
    /\ idx = 0
    /\ pc = "loop"
    /\ pcontigs = <<>> /\ pstatus = <<>> /\ output = NULL
    /\ ctg_name = NULL /\ chr_name = NULL /\ df_in = <<>> /\ df_ctg_grp = <<>>
    /\ df_ref_grps \in {<<>>} \cup {loaded \in RefTablesLoaded : Len(loaded) = 1}
    /\ ri = 0
    /\ max_alr_len_thr \in {HOR_LEN_THR, 0}
    /\ df_flatten_ctg_grp = NULL /\ ctg_num_hor_arrays = 0
    /\ df_q_arm_ctg_grp = NULL
    /\ IdleListVars /\ IdleJoinVars
    /\ df = <<>> /\ partial_res = <<>>
    /\ edge_len \in {1, MaxEdgeLen}
    /\ edge_perc_alr_thr \in {0, 70}
    /\ dst_perc_thr = 30

\* The contig is entered in the partial-flag list although it was skipped.
SkipContigRecorded ==
    /\ pc = "loop"
    /\ idx < Len(batch)
    /\ str_extract(batch[idx + 1].contig) = NULL
    /\ ctg_name' = batch[idx + 1].contig
    /\ idx' = idx + 1
    /\ pcontigs' = Append(pcontigs, batch[idx + 1].contig)
    /\ pstatus' = Append(pstatus, FALSE)
    /\ UNCHANGED <<batch, pc, output>>
    /\ UNCHANGED <<chr_name, df_in, df_ctg_grp, df_ref_grps, ri, max_alr_len_thr,
                   df_flatten_ctg_grp, ctg_num_hor_arrays, df_q_arm_ctg_grp>>
    /\ UNCHANGED <<listVars, joinVars, partVars, argVars>>

\* cli.py:106-112: a contig without a chromosome token; continue.
SkipContig ==
    /\ pc = "loop"
    /\ idx < Len(batch)
    /\ str_extract(batch[idx + 1].contig) = NULL
    /\ ctg_name' = batch[idx + 1].contig
    /\ idx' = idx + 1
    /\ UNCHANGED <<batch, pc, pcontigs, pstatus, output>>
    /\ UNCHANGED <<chr_name, df_in, df_ctg_grp, df_ref_grps, ri, max_alr_len_thr,
                   df_flatten_ctg_grp, ctg_num_hor_arrays, df_q_arm_ctg_grp>>
    /\ UNCHANGED <<listVars, joinVars, partVars, argVars>>

\* cli.py:106-124: a contig with a chromosome token. pcontigs.append runs, then
\* the call of is_partial_centromere; when the call raises, the exception
\* leaves check_cens_status, which has no handler.
CheckPartial ==
    /\ pc = "loop"
    /\ idx < Len(batch)
    /\ str_extract(batch[idx + 1].contig) # NULL
    /\ ctg_name' = batch[idx + 1].contig
    /\ chr_name' = str_extract(batch[idx + 1].contig)
    /\ pcontigs' = Append(pcontigs, batch[idx + 1].contig)
    /\ idx' = idx + 1
    /\ IF CallBinds(call_keywords, is_partial_centromere_params)
       THEN /\ pstatus' = Append(pstatus,
                                 is_partial_centromere(batch[idx + 1].df, edge_len,
                                                       edge_perc_alr_thr))
            /\ df_in' = batch[idx + 1].df
            /\ df_ctg_grp' = batch[idx + 1].df
            /\ ri' = 0
            /\ pc' = "flatten"
       ELSE /\ pc' = "raised"
            /\ UNCHANGED <<pstatus, df_in, df_ctg_grp, ri>>
    /\ UNCHANGED <<batch, output, df_ref_grps, max_alr_len_thr,
                   df_flatten_ctg_grp, ctg_num_hor_arrays, df_q_arm_ctg_grp>>
    /\ UNCHANGED <<listVars, joinVars, partVars, argVars>>

\* cli.py:177-199: the loop over the contigs is exhausted; the tables are
\* built, joined and written.
Summarize ==
    /\ pc = "loop"
    /\ idx = Len(batch)
    /\ LET tj == get_contig_similarity_by_jaccard_index(jcontigs, jrefs, jindex)
           te == get_contig_similarity_by_edit_dst(contigs, refs, dsts, orts,
                                                   dst_perc_thr)
           tp == [i \in 1..Len(pcontigs) |->
                     [contig |-> pcontigs[i], partial |-> pstatus[i]]]
       IN  /\ df_jaccard_index_res' = tj
           /\ df_edit_distance_res' = te.edit
           /\ df_edit_distance_same_chr_res' = te.same_chr
           /\ df_partial_contig_res' = tp
           /\ res' = join_summarize_results(tp, tj, te.edit, te.same_chr)
           /\ output' = join_summarize_results(tp, tj, te.edit, te.same_chr)
    /\ joined' = TRUE
    /\ pc' = "done"
    /\ UNCHANGED <<batch, idx, pcontigs, pstatus>>
    /\ UNCHANGED <<listVars, loopVars, partVars, argVars>>

----------------------------------------------------------------------------
(* Specifications.                                                         *)

\* A whole run of check_cens_status. The call at cli.py:118 never returns, so
\* no run gets from CheckPartial to line 125: FlattenContig, CompareWithRef
\* and EndOfRefs are the continuation from pc = "flatten" and are run under
\* SpecLoop, from the state at line 125.
Init == InitRun
Next == SkipContig \/ CheckPartial \/ Summarize
Spec == Init /\ [][Next]_vars

\* The body of the contig loop from line 125 on, for one contig.
InitLoop ==
    /\ InitLoopVars
    /\ batch = <<>> /\ idx = 0 /\ pc = "flatten"
    /\ pcontigs = <<>> /\ pstatus = <<>> /\ output = NULL
    /\ IdleListVars /\ IdleJoinVars /\ IdlePartialVars /\ IdleArgVars
NextLoop == FlattenContig \/ CompareWithRef \/ EndOfRefs
SpecLoop == InitLoop /\ [][NextLoop]_vars

\* join_summarize_results on its own.
InitJoin ==
    /\ InitJoinVars
    /\ IdleProgVars /\ IdleListVars /\ IdleLoopVars /\ IdlePartialVars /\ IdleArgVars
NextJoin == CallJoinSummarize
SpecJoin == InitJoin /\ [][NextJoin]_vars

\* is_partial_centromere on its own.
InitPartial ==
    /\ InitPartialVars
    /\ IdleProgVars /\ IdleListVars /\ IdleLoopVars /\ IdleJoinVars /\ IdleArgVars
NextPartial == CallIsPartial
SpecPartial == InitPartial /\ [][NextPartial]_vars

----------------------------------------------------------------------------
(* Properties of is_partial_centromere, checked under SpecPartial.         *)

\* The share of a window's total extent carried by ALR/Alpha as the
\* specification defines it: 0 for an empty window, a window of zero total
\* extent and a window without ALR/Alpha.
WindowShare(w) ==
    IF w = <<>> \/ SumSeq(Dsts(w)) = 0 \/ AlrRows(w) = <<>>
    THEN [num |-> 0, den |-> 1]
    ELSE [num |-> SumSeq(Dsts(AlrRows(w))), den |-> SumSeq(Dsts(w))]

ShareExceeds(w, thrPct) == WindowShare(w).num * 100 > thrPct * WindowShare(w).den

\* C7: is_partial_centromere returns true exactly when the ALR/Alpha share of
\* the left window or of the right window exceeds edge_perc_alr_thr, where an
\* empty window, a window of zero total extent and a window without ALR/Alpha
\* count as share 0.
C7_PartialIffShareExceeds ==
    \A t \in DOMAIN partial_res :
        partial_res[t] = (\/ ShareExceeds(ledge(df, edge_len), t)
                          \/ ShareExceeds(redge(df, edge_len), t))

\* C10: for fixed contig and edge_len, a call that returns false at a
\* threshold returns false at every higher threshold.
C10_MonotonicInThreshold ==
    \A t1, t2 \in DOMAIN partial_res :
        (t1 <= t2 /\ ~partial_res[t1]) => ~partial_res[t2]

\* C10 witness: three thresholds were evaluated on one contig; the result is
\* true at the lowest and false at the two higher ones.
C10_Witness ==
    \E t0, t1, t2 \in DOMAIN partial_res :
        /\ t0 < t1 /\ t1 < t2
        /\ partial_res[t0] /\ ~partial_res[t1] /\ ~partial_res[t2]

----------------------------------------------------------------------------
(* Properties of join_summarize_results, checked under SpecJoin.           *)

HasRow(t, c) == RowsOf(t, c) # <<>>
FirstRow(t, c) == RowsOf(t, c)[1]

\* The Jaccard-preferred reference, the edit-distance-preferred reference and
\* orientation and the same-chromosome fallback orientation of contig c: the
\* first row of c in each table, NULL when c has no row.
JaccardRef(c) ==
    IF HasRow(df_jaccard_index_res, c)
    THEN FirstRow(df_jaccard_index_res, c).ref ELSE NULL
EditRef(c) ==
    IF HasRow(df_edit_distance_res, c)
    THEN FirstRow(df_edit_distance_res, c).ref ELSE NULL
EditOrt(c) ==
    IF HasRow(df_edit_distance_res, c)
    THEN FirstRow(df_edit_distance_res, c).ort ELSE NULL
SameChrOrt(c) ==
    IF HasRow(df_edit_distance_same_chr_res, c)
    THEN FirstRow(df_edit_distance_same_chr_res, c).ort_same_chr ELSE NULL
Agree(c) == JaccardRef(c) # NULL /\ JaccardRef(c) = EditRef(c)

ResRows == {res[i] : i \in 1..Len(res)}
IsReference(c) == starts_with(c, reference_prefix)

\* C1: the reconciler emits exactly one row for every contig of the
\* partial-flag table and no row for any other contig, whatever the number of
\* rows a contig has in the other three tables.
C1_OneRowPerContig ==
    joined =>
        \A c \in JoinContigs :
            Len(RowsOf(res, c)) = IF HasRow(df_partial_contig_res, c) THEN 1 ELSE 0

\* C1 witness: a contig of the partial-flag table with several same-chromosome
\* rows got its one row, and a contig that has rows in the Jaccard and the
\* edit-distance table but none in the partial-flag table got no row.
C1_Witness ==
    /\ joined
    /\ \E c, d \in JoinContigs :
        /\ HasRow(df_partial_contig_res, c)
        /\ Len(RowsOf(df_edit_distance_same_chr_res, c)) >= 2
        /\ Len(RowsOf(res, c)) = 1
        /\ ~HasRow(df_partial_contig_res, d)
        /\ Agree(d)
        /\ Len(RowsOf(res, d)) = 0

\* C2: every contig that starts with reference_prefix has orientation Forward
\* in its result row, also when it has no edit-distance-preferred and no
\* same-chromosome orientation.
C2_ReferenceAlwaysForward ==
    joined =>
        \A r \in ResRows : IsReference(r.contig) => r.reorient = Orientation_Forward

\* C5 as claimed: when the two preferred references agree the final token is
\* the reference's and the orientation the edit-distance-preferred one; in
\* every other case final_contig is the contig identifier and the orientation
\* the same-chromosome fallback.
C5_ByAgreement ==
    joined =>
        \A r \in ResRows :
            IF Agree(r.contig)
            THEN /\ r.final_contig = str_replace(r.contig, str_extract(EditRef(r.contig)))
                 /\ r.reorient = EditOrt(r.contig)
            ELSE /\ r.final_contig = r.contig
                 /\ r.reorient = SameChrOrt(r.contig)

\* An orientation as the row of contig c reports it.
ReportedOrt(c, o) ==
    IF IsReference(c) /\ o = Orientation_Reverse THEN Orientation_Forward ELSE o

\* C5 as amended: as claimed, except that for a contig that starts with
\* reference_prefix an orientation Reverse is reported as Forward.
C5_ByAgreementWithOverride ==
    joined =>
        \A r \in ResRows :
            IF Agree(r.contig)
            THEN /\ r.final_contig = str_replace(r.contig, str_extract(EditRef(r.contig)))
                 /\ r.reorient = ReportedOrt(r.contig, EditOrt(r.contig))
            ELSE /\ r.final_contig = r.contig
                 /\ r.reorient = ReportedOrt(r.contig, SameChrOrt(r.contig))

\* C5 witness: one contig's references agree on another chromosome than its
\* own, which is substituted into its identifier, with the edit-distance
\* orientation Reverse; another contig has no Jaccard-preferred reference and
\* keeps its identifier and the fallback orientation.
C5_Witness ==
    /\ joined
    /\ \E r, q \in ResRows :
        /\ Agree(r.contig) /\ r.final_contig # r.contig
        /\ ~IsReference(r.contig) /\ r.reorient = Orientation_Reverse
        /\ JaccardRef(q.contig) = NULL /\ EditRef(q.contig) # NULL
        /\ q.final_contig = q.contig /\ q.reorient = SameChrOrt(q.contig)
        /\ SameChrOrt(q.contig) # NULL

----------------------------------------------------------------------------
(* Properties of the loop over the references, checked under SpecLoop.     *)

Compared == 1..ri
RefName(k) == df_ref_grps[k].name
RefCtg(k) == df_ref_grps[k].ref_ctg

\* The arm-substitution condition of the pair (contig, k-th reference): both
\* names acrocentric and the HOR-run counts less than 3 apart.
ArmCondition(k) ==
    /\ chr_name \in ACROCENTRIC_CHROMOSOMES
    /\ RefName(k) \in ACROCENTRIC_CHROMOSOMES
    /\ Abs(ctg_num_hor_arrays - RefCtg(k).num_hor_arrays) < 3

\* The k-th pair's records are the ones computed on rows c of the contig and
\* rows r of the reference.
RecordedOn(k, r, c) ==
    /\ dsts[2 * k - 1] = editdistance_eval(Types(r), Types(c))
    /\ dsts[2 * k] = editdistance_eval(Types(r), ReverseSeq(Types(c)))
    /\ jindex[k] = jaccard_index(SetOf(Types(r)), SetOf(Types(c)))

\* C3: for a pair that satisfies the arm-substitution condition the edit
\* distances and the Jaccard index are computed on the q-arm of the contig's
\* flattened sequence and on the reference's flattened q-arm profile.
C3_ArmProfilesWhenCondition ==
    \A k \in Compared :
        ArmCondition(k) =>
            RecordedOn(k, RefCtg(k).flat_df,
                       get_q_arm_acro_chr(flatten_repeats(df_in)))

\* C3 witness: a pair that satisfies the condition has been compared, and on
\* the full rows of the two sides its records would have been different.
C3_Witness ==
    \E k \in Compared :
        /\ ArmCondition(k)
        /\ RecordedOn(k, RefCtg(k).flat_df,
                      get_q_arm_acro_chr(flatten_repeats(df_in)))
        /\ dsts[2 * k - 1] # editdistance_eval(Types(RefCtg(k).df), Types(df_in))
        /\ RefCtg(k).flat_df # RefCtg(k).df

\* C4: for a pair that does not satisfy the arm-substitution condition the
\* edit distances and the Jaccard index are computed on the full rows of the
\* contig and of the reference, whatever was compared before.
C4_FullProfilesOtherwise ==
    \A k \in Compared :
        ~ArmCondition(k) => RecordedOn(k, RefCtg(k).df, df_in)

\* C9: the contig's HOR-run count is the number of flattened ALR/Alpha runs
\* whose extent exceeds the max_alr_len_thr passed by the caller.
C9_CountUsesOption ==
    pc # "flatten" =>
        ctg_num_hor_arrays = num_hor_arrays(flatten_repeats(df_in), max_alr_len_thr)

----------------------------------------------------------------------------
(* Properties of the whole run, checked under Spec.                        *)

HasToken(c) == str_extract(c) # NULL
Iterated == [i \in 1..idx |-> batch[i].contig]
ValidIterated == SelectSeq(Iterated, HasToken)

\* C6: the run completes on every batch: the call of is_partial_centromere
\* succeeds for every contig with a chromosome token, its flag is recorded,
\* and nothing aborts the run before the result table is written.
C6_RunCompletes ==
    /\ pc # "raised"
    /\ Len(pstatus) = Len(pcontigs)
    /\ pc = "done" => Len(output) = Len(ValidIterated)

\* C8: a contig without a chromosome token is skipped without aborting the
\* run; it gets no partial-flag entry, no Jaccard record and no edit-distance
\* record and is not in the output, and what has been recorded is what a run
\* over the iterated contigs that have a token records.
C8_TokenlessContigSkipped ==
    /\ \A i \in 1..Len(pcontigs) : HasToken(pcontigs[i])
    /\ \A i \in 1..Len(jcontigs) : HasToken(jcontigs[i])
    /\ \A i \in 1..Len(contigs) : HasToken(contigs[i])
    /\ pc = "done" => \A i \in 1..Len(output) : HasToken(output[i].contig)
    /\ pcontigs = ValidIterated
    /\ pc = "raised" => HasToken(batch[idx].contig)

\* C8 witness: the first contig of the batch has no token and was skipped,
\* and the contig after it, which has one, was taken up and entered in the
\* partial-flag list.
C8_Witness ==
    /\ idx >= 2
    /\ ~HasToken(batch[1].contig)
    /\ HasToken(batch[2].contig)
    /\ pcontigs = <<batch[2].contig>>
====
